---- MODULE Spec2Model ----
(***************************************************************************)
(* Model of src/src/pandas_expectations.py: the class PandasExpectations,  *)
(* a pandas DataFrame extended with boolean checks ("expectations").       *)
(*                                                                         *)
(* A dataset is a record                                                   *)
(*   columns : the column names, in the frame's order (distinct strings)   *)
(*   index   : the row labels, one per row                                 *)
(*   dtype   : column name -> dtype of the column                          *)
(*   values  : column name -> the column's values, one per row             *)
(* Every method of the class is an operator from (dataset, arguments) to   *)
(* an outcome: "True", "False" (the returned bool) or the name of the      *)
(* exception that leaves the method ("KeyError", "AttributeError").        *)
(* Diagnostics (print) are not part of the outcome and are not modelled.   *)
(*                                                                         *)
(* The method bodies are modelled as written.  Line 2 of the file ends     *)
(* its import list with a bare comma, which Python rejects when the file   *)
(* is compiled; the model describes the class the file defines once that   *)
(* line parses.                                                            *)
(***************************************************************************)
EXTENDS Integers, Sequences, FiniteSets, TLC

VARIABLES dataset, constructed, pc, last, failed

vars == <<dataset, constructed, pc, last, failed>>

---------------------------------------------------------------------------
(* Bounds of the model *)

\* Largest number of rows of a dataset.
MaxRows == 2

\* Largest length of a list argument (columns, expected_schema).
MaxLen == 2

---------------------------------------------------------------------------
(* Universe of values *)

\* Column names a dataset can have.  "colnames" is an ordinary column name;
\* it matters because line 45 reads the attribute self.colnames.
Names == {"A", "colnames"}

\* Names a caller can pass: those above and one no dataset has.
ArgNames == Names \cup {"C"}

\* Python's order on these strings (upper case sorts before lower case).
Alphabet == <<"A", "C", "colnames">>

\* The missing value of a numeric column (numpy NaN).
NaN == 0 - 1

\* Non-missing cell values.
Numbers == {1, 2}

\* Cell values.
Values == Numbers \cup {NaN}

\* dtypes a column can have.
Dtypes == {"int64", "float64"}

\* Expected types a caller can put in a schema: a dtype name or the Python
\* type int, which numpy reads as int64.
TargetTypes == {"float64", "int"}

\* Labels of the default RangeIndex, as strings: row i is labelled i-1.
Digits == <<"0", "1", "2", "3", "4", "5", "6", "7", "8", "9">>

\* Names used as row labels by a dataset that is indexed by a string key.
IndexNames == {"A"}

Range(s) == {s[i] : i \in DOMAIN s}

\* Sequences over S of length at most n.
SeqsUpTo(S, n) == UNION {[1..k -> S] : k \in 0..n}

IsInjective(s) == \A i, j \in DOMAIN s : s[i] = s[j] => i = j

---------------------------------------------------------------------------
(* pandas and Python primitives the methods call *)

\* Python truth value as an outcome.
Bool(b) == IF b THEN "True" ELSE "False"

\* all(xs) and any(xs) over a list of booleans.
all(xs) == \A i \in DOMAIN xs : xs[i]

any(xs) == \E i \in DOMAIN xs : xs[i]

\* self[colname] exists: otherwise the lookup raises KeyError.
HasColumn(self, colname) == colname \in Range(self.columns)

\* Series.notnull(): one boolean per row.
notnull(series) == [i \in DOMAIN series |-> series[i] # NaN]

\* Series.unique(): the distinct values in order of first appearance; a
\* missing value is one of them.
RECURSIVE unique(_)
unique(series) ==
    IF series = <<>> THEN <<>>
    ELSE LET n == Len(series)
             front == unique(SubSeq(series, 1, n - 1))
         IN  IF series[n] \in Range(front) THEN front
             ELSE Append(front, series[n])

\* value in set_: membership by hash and ==.  A NaN that comes out of a
\* column is a fresh float that equals nothing, itself included.
In(value, set_) == value # NaN /\ value \in set_

\* Series.mean(): the sum and the count of the non-missing values (the
\* mean is sum/count; it is NaN when count = 0).
RECURSIVE Sum(_)
Sum(series) ==
    IF series = <<>> THEN 0
    ELSE series[1] + Sum(Tail(series))

mean(series) ==
    LET present == SelectSeq(series, LAMBDA v : v # NaN)
    IN  [sum |-> Sum(present), count |-> Len(present)]

\* a <= m for a number a and a mean m; false when m is NaN.
LeqMean(a, m) == m.count > 0 /\ a * m.count <= m.sum

MeanLeq(m, b) == m.count > 0 /\ m.sum <= b * m.count

\* numpy's dtype == other: other is first read as a dtype.
AsDtype(target) == IF target = "int" THEN "int64" ELSE target

DtypeEq(actual_dtype, target_dtype) == actual_dtype = AsDtype(target_dtype)

\* sorted(xs) for a list of names.
Rank(name) == CHOOSE i \in DOMAIN Alphabet : Alphabet[i] = name

RECURSIVE Insert(_, _)
Insert(x, s) ==
    IF s = <<>> THEN <<x>>
    ELSE IF Rank(x) <= Rank(s[1]) THEN <<x>> \o s
    ELSE <<s[1]>> \o Insert(x, Tail(s))

\* sorted left out: the list as it was given.
sorted_as_given(xs) == xs

RECURSIVE sorted(_)
sorted(xs) ==
    IF xs = <<>> THEN <<>>
    ELSE Insert(xs[1], sorted(Tail(xs)))

---------------------------------------------------------------------------
(* The methods of PandasExpectations *)

\* from_pandas(dataset): cls(dataset), a frame with the columns, index,
\* dtypes and values of the frame it is given.
from_pandas(d) ==
    [columns |-> d.columns, index |-> d.index,
     dtype |-> d.dtype, values |-> d.values]

\* Line 45, colname in self.colnames.  DataFrame has no attribute colnames:
\* the read raises AttributeError unless the frame has a column of that
\* name, and then it is that column (a Series), whose "in" tests the row
\* labels.
expect_dataframe_to_have_columns(self, columns) ==
    IF columns # <<>> /\ ~HasColumn(self, "colnames") THEN "AttributeError"
    ELSE LET colnames_not_in_df ==
                 SelectSeq(columns, LAMBDA colname :
                                        colname \notin Range(self.index))
         IN  IF Len(colnames_not_in_df) = 0 THEN "False" ELSE "True"

expect_columns_to_be_equal(self, columns) ==
    LET sorted_df_columns == sorted(self.columns)
        sorted_expected_columns == sorted(columns)
    IN  IF sorted_df_columns # sorted_expected_columns THEN "False"
        ELSE "True"

\* The schema check with any in place of all.
expect_schema_to_be_equal_any(self, expected_schema) ==
    IF \E i \in DOMAIN expected_schema :
           ~HasColumn(self, expected_schema[i].colname)
    THEN "KeyError"
    ELSE Bool(any([i \in DOMAIN expected_schema |->
                      DtypeEq(self.dtype[expected_schema[i].colname],
                              expected_schema[i].dtype)]))

\* expected_schema is a dict: a list of (colname, dtype) items with distinct
\* keys, visited in insertion order.  self[colname] raises KeyError at the
\* first key that is no column.
expect_schema_to_be_equal(self, expected_schema) ==
    IF \E i \in DOMAIN expected_schema :
           ~HasColumn(self, expected_schema[i].colname)
    THEN "KeyError"
    ELSE LET columns_have_correct_dtype ==
                 [i \in DOMAIN expected_schema |->
                     DtypeEq(self.dtype[expected_schema[i].colname],
                             expected_schema[i].dtype)]
         IN  Bool(all(columns_have_correct_dtype))

\* The null check with any in place of all.
expect_column_values_to_not_be_null_any(self, colname) ==
    IF ~HasColumn(self, colname) THEN "KeyError"
    ELSE Bool(any(notnull(self.values[colname])))

expect_column_values_to_not_be_null(self, colname) ==
    IF ~HasColumn(self, colname) THEN "KeyError"
    ELSE Bool(all(notnull(self.values[colname])))

\* The membership check with any in place of all.
expect_column_values_to_be_in_set_any(self, colname, set_) ==
    IF ~HasColumn(self, colname) THEN "KeyError"
    ELSE LET distinct == unique(self.values[colname])
         IN  Bool(any([i \in DOMAIN distinct |-> In(distinct[i], set_)]))

expect_column_values_to_be_in_set(self, colname, set_) ==
    IF ~HasColumn(self, colname) THEN "KeyError"
    ELSE LET distinct == unique(self.values[colname])
             value_is_in_set ==
                 [i \in DOMAIN distinct |-> In(distinct[i], set_)]
         IN  Bool(all(value_is_in_set))

\* The subset check with the test of line 126 inverted.
expect_column_values_to_be_a_subset_of_inverted(self, colname, superset) ==
    IF ~HasColumn(self, colname) THEN "KeyError"
    ELSE LET values_not_in_superset ==
                 SelectSeq(unique(self.values[colname]),
                           LAMBDA value : In(value, superset))
         IN  IF Len(values_not_in_superset) = 0 THEN "True" ELSE "False"

expect_column_values_to_be_a_subset_of(self, colname, superset) ==
    IF ~HasColumn(self, colname) THEN "KeyError"
    ELSE LET values_not_in_superset ==
                 SelectSeq(unique(self.values[colname]),
                           LAMBDA value : ~In(value, superset))
         IN  IF Len(values_not_in_superset) = 0 THEN "True" ELSE "False"

\* The exclusion check with all in place of any.
expect_column_values_to_not_be_in_set_all(self, colname, set_) ==
    IF ~HasColumn(self, colname) THEN "KeyError"
    ELSE LET distinct == unique(self.values[colname])
         IN  Bool(~all([i \in DOMAIN distinct |-> In(distinct[i], set_)]))

expect_column_values_to_not_be_in_set(self, colname, set_) ==
    IF ~HasColumn(self, colname) THEN "KeyError"
    ELSE LET distinct == unique(self.values[colname])
             value_in_set ==
                 [i \in DOMAIN distinct |-> In(distinct[i], set_)]
         IN  Bool(~any(value_in_set))

\* The mean check with both comparisons strict, as the parameter names
\* strict_min and strict_max suggest.
expect_column_mean_to_be_between_strict(self, colname, strict_min, strict_max) ==
    IF ~HasColumn(self, colname) THEN "KeyError"
    ELSE LET m == mean(self.values[colname])
         IN  Bool(/\ m.count > 0
                  /\ strict_min * m.count < m.sum
                  /\ m.sum < strict_max * m.count)

expect_column_mean_to_be_between(self, colname, strict_min, strict_max) ==
    IF ~HasColumn(self, colname) THEN "KeyError"
    ELSE LET m == mean(self.values[colname])
         IN  Bool(LeqMean(strict_min, m) /\ MeanLeq(m, strict_max))

---------------------------------------------------------------------------
(* Inputs *)

\* The contents a column of n rows can have: an int64 column holds no NaN.
ColumnData(n) ==
    {cd \in [dtype : Dtypes, values : [1..n -> Values]] :
        cd.dtype = "int64" => NaN \notin Range(cd.values)}

\* The row labels of a frame of n rows: the default RangeIndex, or a string
\* key that is the same on every row.
Indexes(n) ==
    {[i \in 1..n |-> Digits[i]]} \cup {[i \in 1..n |-> k] : k \in IndexNames}

\* The column lists of a frame: distinct names, in any order.
FrameColumns == {cs \in SeqsUpTo(Names, Cardinality(Names)) : IsInjective(cs)}

Datasets ==
    UNION {
        UNION {
            UNION {
                {[columns |-> cs, index |-> ix,
                  dtype |-> [c \in Range(cs) |-> f[c].dtype],
                  values |-> [c \in Range(cs) |-> f[c].values]] :
                    f \in [Range(cs) -> ColumnData(n)]} :
                ix \in Indexes(n)} :
            cs \in FrameColumns} :
        n \in 0..MaxRows}

\* Arguments of the checks.
ColumnLists == SeqsUpTo(ArgNames, MaxLen)

Schemas ==
    {s \in SeqsUpTo([colname : ArgNames, dtype : TargetTypes], MaxLen) :
        \A i, j \in DOMAIN s : s[i].colname = s[j].colname => i = j}

ValueSets == SUBSET Values

---------------------------------------------------------------------------
(* The state machine: one wrapped dataset, checks invoked one at a time *)

\* The record of a call: the method, its arguments (those the method does
\* not take keep the value below) and its outcome.
NoCall ==
    [op |-> "none", columns |-> <<>>, expected_schema |-> <<>>,
     colname |-> "", set_ |-> {}, strict_min |-> 0, strict_max |-> 0,
     outcome |-> "none"]

\* A method returns (or raises) to its caller: call is what the caller
\* sees.  No method assigns to self, so every action below leaves the
\* dataset as it is.
Return(call) ==
    /\ pc = "ready"
    /\ pc' = "returned"
    /\ last' = call
    /\ UNCHANGED failed

Init ==
    /\ \E d \in Datasets : dataset = from_pandas(d) /\ constructed = d
    /\ pc = "ready"
    /\ last = NoCall
    /\ failed = FALSE

Call_expect_dataframe_to_have_columns ==
    \E columns \in ColumnLists :
        /\ Return([NoCall EXCEPT
                      !.op = "expect_dataframe_to_have_columns",
                      !.columns = columns,
                      !.outcome =
                          expect_dataframe_to_have_columns(dataset, columns)])
        /\ UNCHANGED <<dataset, constructed>>

\* The column comparison sorting the frame's own columns in place.
Call_expect_columns_to_be_equal_in_place ==
    \E columns \in ColumnLists :
        /\ Return([NoCall EXCEPT
                      !.op = "expect_columns_to_be_equal",
                      !.columns = columns,
                      !.outcome = expect_columns_to_be_equal(dataset, columns)])
        /\ dataset' = [dataset EXCEPT !.columns = sorted(@)]
        /\ UNCHANGED constructed

Call_expect_columns_to_be_equal ==
    \E columns \in ColumnLists :
        /\ Return([NoCall EXCEPT
                      !.op = "expect_columns_to_be_equal",
                      !.columns = columns,
                      !.outcome = expect_columns_to_be_equal(dataset, columns)])
        /\ UNCHANGED <<dataset, constructed>>

Call_expect_schema_to_be_equal ==
    \E expected_schema \in Schemas :
        /\ Return([NoCall EXCEPT
                      !.op = "expect_schema_to_be_equal",
                      !.expected_schema = expected_schema,
                      !.outcome =
                          expect_schema_to_be_equal(dataset, expected_schema)])
        /\ UNCHANGED <<dataset, constructed>>

Call_expect_column_values_to_not_be_null ==
    \E colname \in ArgNames :
        /\ Return([NoCall EXCEPT
                      !.op = "expect_column_values_to_not_be_null",
                      !.colname = colname,
                      !.outcome =
                          expect_column_values_to_not_be_null(dataset, colname)])
        /\ UNCHANGED <<dataset, constructed>>

Call_expect_column_values_to_be_in_set ==
    \E colname \in ArgNames, set_ \in ValueSets :
        /\ Return([NoCall EXCEPT
                      !.op = "expect_column_values_to_be_in_set",
                      !.colname = colname,
                      !.set_ = set_,
                      !.outcome =
                          expect_column_values_to_be_in_set(dataset, colname,
                                                            set_)])
        /\ UNCHANGED <<dataset, constructed>>

Call_expect_column_values_to_be_a_subset_of ==
    \E colname \in ArgNames, superset \in ValueSets :
        /\ Return([NoCall EXCEPT
                      !.op = "expect_column_values_to_be_a_subset_of",
                      !.colname = colname,
                      !.set_ = superset,
                      !.outcome =
                          expect_column_values_to_be_a_subset_of(dataset, colname,
                                                                 superset)])
        /\ UNCHANGED <<dataset, constructed>>

Call_expect_column_values_to_not_be_in_set ==
    \E colname \in ArgNames, set_ \in ValueSets :
        /\ Return([NoCall EXCEPT
                      !.op = "expect_column_values_to_not_be_in_set",
                      !.colname = colname,
                      !.set_ = set_,
                      !.outcome =
                          expect_column_values_to_not_be_in_set(dataset, colname,
                                                                set_)])
        /\ UNCHANGED <<dataset, constructed>>

Call_expect_column_mean_to_be_between ==
    \E colname \in ArgNames, strict_min \in Numbers, strict_max \in Numbers :
        /\ Return([NoCall EXCEPT
                      !.op = "expect_column_mean_to_be_between",
                      !.colname = colname,
                      !.strict_min = strict_min,
                      !.strict_max = strict_max,
                      !.outcome =
                          expect_column_mean_to_be_between(dataset, colname,
                                                           strict_min,
                                                           strict_max)])
        /\ UNCHANGED <<dataset, constructed>>

\* The caller takes the outcome and goes on to its next check, whatever the
\* outcome was; failed remembers that some earlier check did not return True.
Continue ==
    /\ pc = "returned"
    /\ pc' = "ready"
    /\ last' = NoCall
    /\ failed' = (failed \/ last.outcome # "True")
    /\ UNCHANGED <<dataset, constructed>>

Next ==
    \/ Call_expect_dataframe_to_have_columns
    \/ Call_expect_columns_to_be_equal
    \/ Call_expect_schema_to_be_equal
    \/ Call_expect_column_values_to_not_be_null
    \/ Call_expect_column_values_to_be_in_set
    \/ Call_expect_column_values_to_be_a_subset_of
    \/ Call_expect_column_values_to_not_be_in_set
    \/ Call_expect_column_mean_to_be_between
    \/ Continue

Spec == Init /\ [][Next]_vars

---------------------------------------------------------------------------
(* The claims *)

\* A call of method op has just returned.
Called(op) == pc = "returned" /\ last.op = op

IsBoolean(outcome) == outcome \in {"True", "False"}

\* The values of the column the last call names (when the frame has it).
Column == dataset.values[last.colname]

\* How often name occurs in the list xs.
Count(name, xs) == Cardinality({i \in DOMAIN xs : xs[i] = name})

\* The members of a caller's set that a column value can equal: NaN equals
\* nothing under the dataset's value equality.
Matchable(set_) == set_ \ {NaN}

\* C1: has_columns returns true iff every name of L is a column name of D
\* (true for an empty L, false when one name of L is absent), whatever the
\* order of D's columns and whatever other columns D has.
C1_HasColumnsIffAllPresent ==
    Called("expect_dataframe_to_have_columns") =>
        last.outcome = Bool(Range(last.columns) \subseteq Range(dataset.columns))

\* C2, as stated: columns_equal returns true iff the set of D's column
\* names equals the set of names in L, a name repeated in L included.
C2_ColumnsEqualIffSameSet ==
    Called("expect_columns_to_be_equal") =>
        last.outcome = Bool(Range(last.columns) = Range(dataset.columns))

\* C2, amended: columns_equal returns true iff L holds exactly D's column
\* names, each as often as D has it (L is a rearrangement of D's column
\* list), whatever the order; it returns false whenever D has a column not
\* in L or lacks a column that is in L.
C2_ColumnsEqualIffSameMultiset ==
    Called("expect_columns_to_be_equal") =>
        /\ last.outcome =
               Bool(\A name \in ArgNames :
                        Count(name, last.columns) = Count(name, dataset.columns))
        /\ Range(last.columns) # Range(dataset.columns) => last.outcome = "False"

\* C2 witness: true for a list that names D's columns in another order.
C2_Witness ==
    /\ Called("expect_columns_to_be_equal")
    /\ last.outcome = "True"
    /\ last.columns # dataset.columns

\* The keys of a schema.
Keys(expected_schema) ==
    {expected_schema[i].colname : i \in DOMAIN expected_schema}

\* C3: for a schema S whose columns all exist in D, schema_equal returns
\* true iff every (column, type) pair of S has the column's actual type
\* equal to the expected type (true for an empty S), and the type of a
\* column of D that is no key of S never changes the result.
C3_SchemaEqualIffAllPairsMatch ==
    Called("expect_schema_to_be_equal")
    /\ Keys(last.expected_schema) \subseteq Range(dataset.columns) =>
        /\ IsBoolean(last.outcome)
        /\ last.outcome = "False" <=>
               \E i \in DOMAIN last.expected_schema :
                   dataset.dtype[last.expected_schema[i].colname]
                       # AsDtype(last.expected_schema[i].dtype)
        /\ \A c \in Range(dataset.columns) \ Keys(last.expected_schema) :
               \A t \in Dtypes :
                   expect_schema_to_be_equal([dataset EXCEPT !.dtype[c] = t],
                                             last.expected_schema)
                       = last.outcome

\* C3 witness: a one-pair schema holds while D has a column that is no key
\* of it.
C3_Witness ==
    /\ Called("expect_schema_to_be_equal")
    /\ Len(last.expected_schema) = 1
    /\ Keys(last.expected_schema) \subseteq Range(dataset.columns)
    /\ Range(dataset.columns) \ Keys(last.expected_schema) # {}
    /\ last.outcome = "True"

PresentRows(series) == {i \in DOMAIN series : series[i] # NaN}

RECURSIVE SumOver(_, _)
SumOver(series, rows) ==
    IF rows = {} THEN 0
    ELSE LET i == CHOOSE r \in rows : TRUE
         IN  series[i] + SumOver(series, rows \ {i})

\* C6: for an existing column c, mean_between returns true iff
\* lo <= mean(D[c]) <= hi, both bounds inclusive (the mean is taken over
\* the values present: total / n); lo > hi always gives false.
C6_MeanBetweenIffInclusive ==
    Called("expect_column_mean_to_be_between")
    /\ HasColumn(dataset, last.colname) =>
        LET n == Cardinality(PresentRows(Column))
            total == SumOver(Column, PresentRows(Column))
        IN  /\ last.outcome =
                   Bool(/\ n > 0
                        /\ last.strict_min * n <= total
                        /\ total <= last.strict_max * n)
            /\ last.strict_min > last.strict_max => last.outcome = "False"

\* C6 witness: the mean of two values is exactly lo, below hi, and the
\* check returns true.
C6_Witness ==
    /\ Called("expect_column_mean_to_be_between")
    /\ HasColumn(dataset, last.colname)
    /\ Cardinality(PresentRows(Column)) = 2
    /\ SumOver(Column, PresentRows(Column)) = last.strict_min * 2
    /\ last.strict_min < last.strict_max
    /\ last.outcome = "True"

\* The dataset with the value at row i of column c replaced by a missing
\* value (the column is then a float64 column).
WithNull(d, c, i) ==
    [d EXCEPT !.values[c][i] = NaN, !.dtype[c] = "float64"]

\* C7: for an existing column c, column_not_null returns true iff no
\* value of D[c] is missing; from a column for which it is true, replacing
\* the value at any one position by a missing value makes it false.
C7_NotNullIffNoMissing ==
    Called("expect_column_values_to_not_be_null")
    /\ HasColumn(dataset, last.colname) =>
        /\ last.outcome = Bool(NaN \notin Range(Column))
        /\ last.outcome = "True" =>
               \A i \in DOMAIN Column :
                   expect_column_values_to_not_be_null(
                       WithNull(dataset, last.colname, i), last.colname)
                       = "False"

\* C7 witness: true on a column of two rows, either of which can be
\* replaced.
C7_Witness ==
    /\ Called("expect_column_values_to_not_be_null")
    /\ HasColumn(dataset, last.colname)
    /\ Len(Column) = 2
    /\ last.outcome = "True"

\* C8: values_in_set and values_subset_of give the same outcome for the
\* same column name and collection: both true, both false, or both a
\* lookup error when the column is absent.
C8_InSetSameAsSubsetOf ==
    /\ Called("expect_column_values_to_be_in_set") =>
           last.outcome =
               expect_column_values_to_be_a_subset_of(dataset, last.colname,
                                                      last.set_)
    /\ Called("expect_column_values_to_be_a_subset_of") =>
           last.outcome =
               expect_column_values_to_be_in_set(dataset, last.colname,
                                                 last.set_)

\* C8 witness: values_subset_of returns false where some, not all, values
\* of the column are in the collection.
C8_Witness ==
    /\ Called("expect_column_values_to_be_a_subset_of")
    /\ HasColumn(dataset, last.colname)
    /\ Range(Column) \cap Matchable(last.set_) # {}
    /\ last.outcome = "False"

\* The checks that look a column up, and the names such a call refers to.
ColumnScoped ==
    {"expect_schema_to_be_equal", "expect_column_values_to_not_be_null",
     "expect_column_values_to_be_in_set",
     "expect_column_values_to_be_a_subset_of",
     "expect_column_values_to_not_be_in_set",
     "expect_column_mean_to_be_between"}

Referenced(call) ==
    IF call.op = "expect_schema_to_be_equal" THEN Keys(call.expected_schema)
    ELSE {call.colname}

\* C9: the outcome of a check is an error iff the check is column-scoped
\* and a column name it refers to is absent from the dataset; every other
\* outcome, has_columns and columns_equal given absent names included, is
\* a boolean.
C9_ErrorIffColumnScopedAndAbsent ==
    pc = "returned" =>
        (~IsBoolean(last.outcome) <=>
            /\ last.op \in ColumnScoped
            /\ ~(Referenced(last) \subseteq Range(dataset.columns)))

\* The outcome of a call on the dataset d.
OutcomeOn(d, call) ==
    CASE call.op = "expect_dataframe_to_have_columns" ->
             expect_dataframe_to_have_columns(d, call.columns)
      [] call.op = "expect_columns_to_be_equal" ->
             expect_columns_to_be_equal(d, call.columns)
      [] call.op = "expect_schema_to_be_equal" ->
             expect_schema_to_be_equal(d, call.expected_schema)
      [] call.op = "expect_column_values_to_not_be_null" ->
             expect_column_values_to_not_be_null(d, call.colname)
      [] call.op = "expect_column_values_to_be_in_set" ->
             expect_column_values_to_be_in_set(d, call.colname, call.set_)
      [] call.op = "expect_column_values_to_be_a_subset_of" ->
             expect_column_values_to_be_a_subset_of(d, call.colname, call.set_)
      [] call.op = "expect_column_values_to_not_be_in_set" ->
             expect_column_values_to_not_be_in_set(d, call.colname, call.set_)
      [] call.op = "expect_column_mean_to_be_between" ->
             expect_column_mean_to_be_between(d, call.colname, call.strict_min,
                                              call.strict_max)

\* C10: the checks never change the dataset: after any sequence of calls,
\* failed ones included, its column names, types and values (and row
\* labels) are those it had after construction, so every call returns what
\* it returns on the dataset as constructed, and after any outcome the
\* next check can be invoked.
C10_DatasetNeverMutated ==
    /\ dataset = from_pandas(constructed)
    /\ pc = "returned" =>
           /\ last.outcome = OutcomeOn(constructed, last)
           /\ ENABLED Continue
    /\ pc = "ready" =>
           /\ ENABLED Call_expect_dataframe_to_have_columns
           /\ ENABLED Call_expect_columns_to_be_equal
           /\ ENABLED Call_expect_schema_to_be_equal
           /\ ENABLED Call_expect_column_values_to_not_be_null
           /\ ENABLED Call_expect_column_values_to_be_in_set
           /\ ENABLED Call_expect_column_values_to_be_a_subset_of
           /\ ENABLED Call_expect_column_values_to_not_be_in_set
           /\ ENABLED Call_expect_column_mean_to_be_between

\* C10 witness: a check returns true after an earlier check of the same
\* dataset returned false or raised.
C10_Witness ==
    /\ failed
    /\ pc = "returned"
    /\ last.outcome = "True"
    /\ dataset = constructed

====
